---- MODULE Spec2Model ----
(***************************************************************************)
(* Model of domain_tracker: the WHOIS lookup client (whois_client.py) and  *)
(* the status classification it performs on a lookup response.             *)
(*                                                                         *)
(* Python strings are modelled as sequences of one-character strings, so   *)
(* that lower(), strip(), split(), replace() and the substring test are    *)
(* computed character by character, as the interpreter computes them.      *)
(***************************************************************************)
EXTENDS Integers, Sequences, FiniteSets, TLC

VARIABLES
    pc,                 \* which operation ran last
    keywordOrder,       \* iteration order of the PROBLEMATIC_KEYWORDS set in this process
    call,               \* the arguments and the lookup response of the current check
    detailed,           \* what check_domain_status_detailed returned
    enhanced,           \* what get_enhanced_domain_info returned
    domain_statuses,    \* argument of _extract_problematic_statuses (classifier runs)
    problematic,        \* its return value
    argument,           \* argument of the helper under call (validator, parser, ...)
    returned            \* what that helper returned

vars == <<pc, keywordOrder, call, detailed, enhanced, domain_statuses, problematic,
          argument, returned>>

-----------------------------------------------------------------------------
(* Python str operations *)

Chars(s) == [i \in 1..Len(s) |-> SubSeq(s, i, i)]

UpperLetters == Chars("ABCDEFGHIJKLMNOPQRSTUVWXYZ")
LowerLetters == Chars("abcdefghijklmnopqrstuvwxyz")
DigitChars == Chars("0123456789")

Range(f) == {f[i] : i \in DOMAIN f}

UpperSet == Range(UpperLetters)
LowerSet == Range(LowerLetters)
DigitSet == Range(DigitChars)

IsUpper(c) == c \in UpperSet
IsLower(c) == c \in LowerSet
\* mutant: only the lowercase letters count as letters
IsAlphaLowercaseOnly(c) == IsLower(c)
IsAlpha(c) == IsUpper(c) \/ IsLower(c)
IsAlnum(c) == IsAlpha(c) \/ c \in DigitSet

ToLower == [c \in UpperSet |-> LowerLetters[CHOOSE i \in 1..26 : UpperLetters[i] = c]]
ToUpper == [c \in LowerSet |-> UpperLetters[CHOOSE i \in 1..26 : LowerLetters[i] = c]]

\* Two characters outside ASCII whose case mapping leads into ASCII: the sharp s
\* (U+00DF), whose uppercase is the two letters SS, and the Kelvin sign (U+212A),
\* whose lowercase is the letter k.  Neither is matched by [a-zA-Z0-9].
SharpS == "U+00DF"
KelvinSign == "U+212A"

LowerChar(c) == IF IsUpper(c) THEN ToLower[c] ELSE IF c = KelvinSign THEN "k" ELSE c
UpperChar(c) == IF IsLower(c) THEN ToUpper[c] ELSE c

\* str.lower()
Lower(s) == [i \in 1..Len(s) |-> LowerChar(s[i])]
\* str.upper()
UpperOf(c) == IF c = SharpS THEN <<"S", "S">> ELSE <<UpperChar(c)>>
Upper(s) ==
    LET wide == {i \in 1..Len(s) : Len(UpperOf(s[i])) = 2}
        first == [i \in 1..Len(s) |-> i + Cardinality({k \in wide : k < i})]
    IN  [j \in 1..(Len(s) + Cardinality(wide)) |->
            LET i == CHOOSE i \in 1..Len(s) :
                         first[i] <= j /\ j < first[i] + Len(UpperOf(s[i]))
            IN  UpperOf(s[i])[j - first[i] + 1]]
\* str.title(): a cased letter is uppercased after an uncased one, lowercased otherwise
Title(s) ==
    [i \in 1..Len(s) |->
        IF i = 1 \/ ~IsAlpha(s[i - 1]) THEN UpperChar(s[i]) ELSE LowerChar(s[i])]

Whitespace == {" ", "\t", "\n", "\r"}

\* str.strip(chars)
StripChars(s, chars) ==
    LET keep == {i \in 1..Len(s) : s[i] \notin chars}
    IN  IF keep = {} THEN <<>>
        ELSE SubSeq(s, CHOOSE i \in keep : \A j \in keep : i <= j,
                       CHOOSE i \in keep : \A j \in keep : i >= j)
\* str.strip()
Strip(s) == StripChars(s, Whitespace)

\* sub in s
Contains(s, sub) ==
    \E i \in 0..(Len(s) - Len(sub)) : \A k \in 1..Len(sub) : s[i + k] = sub[k]
\* s.startswith(prefix)
StartsWith(s, prefix) ==
    Len(prefix) <= Len(s) /\ SubSeq(s, 1, Len(prefix)) = prefix
\* s.endswith(suffix)
EndsWith(s, suffix) ==
    Len(suffix) <= Len(s) /\ SubSeq(s, Len(s) - Len(suffix) + 1, Len(s)) = suffix

\* s.replace(c, "") for every c in chars
RemoveChars(s, chars) == SelectSeq(s, LAMBDA c : c \notin chars)

\* s.split(sep)[0] for a one-character separator
BeforeFirst(s, sep) ==
    LET hits == {i \in 1..Len(s) : s[i] = sep}
    IN  IF hits = {} THEN s
        ELSE SubSeq(s, 1, (CHOOSE i \in hits : \A j \in hits : i <= j) - 1)

\* s.split(): the maximal runs of non-whitespace characters, in order
SplitWhitespace(s) ==
    LET inWord == {i \in 1..Len(s) : s[i] \notin Whitespace}
        starts == {i \in inWord : i = 1 \/ i - 1 \notin inWord}
        ends == {i \in inWord : i + 1 \notin inWord}
        first == [k \in 1..Cardinality(starts) |->
                     CHOOSE i \in starts : Cardinality({j \in starts : j < i}) = k - 1]
        last == [k \in 1..Cardinality(starts) |->
                    CHOOSE i \in ends : Cardinality({j \in ends : j < i}) = k - 1]
    IN  [k \in 1..Cardinality(starts) |-> SubSeq(s, first[k], last[k])]

RECURSIVE Concat(_)
Concat(seqs) == IF seqs = <<>> THEN <<>> ELSE Head(seqs) \o Concat(Tail(seqs))

\* the sequences over S of length at most n
SeqsUpTo(S, n) == UNION {[1..k -> S] : k \in 0..n}

-----------------------------------------------------------------------------
(* whois_client.py: the classification tables *)

PROBLEMATIC_DOMAIN_STATUSES ==
    { Chars("pendingdelete"), Chars("redemptionperiod"), Chars("renewperiod"),
      Chars("clienthold"), Chars("serverhold"),
      Chars("transferperiod"), Chars("pendingtransfer"),
      Chars("clienttransferprohibited"), Chars("servertransferprohibited"),
      Chars("clientdeleteprohibited"), Chars("serverdeleteprohibited"),
      Chars("clientupdateprohibited"), Chars("serverupdateprohibited"),
      Chars("registrantverificationpending"), Chars("pendingverification"),
      Chars("pendingnotification"), Chars("addperiod"), Chars("autorenewperiod"),
      Chars("pendingcreate"), Chars("pendingupdate"), Chars("pendingrenew"),
      Chars("pendingrelease"), Chars("pendingrebill"), Chars("pendingrestore") }

\* The keywords in the order the set literal lists them.  PROBLEMATIC_KEYWORDS is a
\* Python set of str: the order in which a for loop visits it depends on the
\* interpreter's per-process string hashing, so it is one permutation per process.
KeywordsAsWritten ==
    << Chars("pending"), Chars("hold"), Chars("prohibited"), Chars("redemption"),
       Chars("grace"), Chars("locked"), Chars("suspended"), Chars("expired"),
       Chars("quarantine"), Chars("frozen") >>

PROBLEMATIC_KEYWORDS == Range(KeywordsAsWritten)

Reverse(s) == [i \in 1..Len(s) |-> s[Len(s) + 1 - i]]
MoveToFront(s, x) == <<x>> \o SelectSeq(s, LAMBDA y : y # x)

\* The iteration orders the model explores.
KeywordOrders ==
    { KeywordsAsWritten,
      Reverse(KeywordsAsWritten),
      MoveToFront(KeywordsAsWritten, Chars("hold")),
      MoveToFront(KeywordsAsWritten, Chars("locked")) }

status_mapping ==
    (Chars("pendingdelete") :> Chars("pendingDelete"))
    @@ (Chars("redemptionperiod") :> Chars("redemptionPeriod"))
    @@ (Chars("clienthold") :> Chars("clientHold"))
    @@ (Chars("serverhold") :> Chars("serverHold"))
    @@ (Chars("renewperiod") :> Chars("renewPeriod"))
    @@ (Chars("transferperiod") :> Chars("transferPeriod"))

\* mutant: no status gets a camelCase name
NormalizeStatusNameUnchanged(status) == status

normalize_status_name(status) ==
    LET key == RemoveChars(Lower(status), {" "})
    IN  IF key \in DOMAIN status_mapping THEN status_mapping[key] ELSE status

\* mutant: a hyphen is replaced by a space instead of being removed
NormalizedStatusHyphenToSpace(status_str) ==
    LET lowered == Lower(status_str)
        code == IF Contains(lowered, <<"(">>)
                THEN Strip(BeforeFirst(lowered, "("))
                ELSE lowered
        removed == RemoveChars(code, {" ", "_"})
    IN  [i \in 1..Len(removed) |-> IF removed[i] = "-" THEN " " ELSE removed[i]]

\* lines 312-323: the comparison key of one stripped status string
NormalizedStatus(status_str) ==
    LET lowered == Lower(status_str)
        code == IF Contains(lowered, <<"(">>)
                THEN Strip(BeforeFirst(lowered, "("))
                ELSE lowered
    IN  RemoveChars(code, {" ", "-", "_"})

\* lines 305-323: the normalization of one raw status: trim, lowercase, cut at the
\* first parenthesis, remove spaces, hyphens and underscores
Normalize(status) == NormalizedStatus(Strip(status))

\* mutant: every keyword is displayed title-cased, without sub-rules
KeywordStatusNameTitleOnly(keyword, status_lower) == Title(keyword)

\* lines 335-357: the display name for the keyword that fired
KeywordStatusName(keyword, status_lower) ==
    IF keyword = Chars("pending") /\ Contains(status_lower, Chars("delete"))
    THEN Chars("pendingDelete")
    ELSE IF keyword = Chars("hold")
    THEN IF Contains(status_lower, Chars("client")) THEN Chars("clientHold")
         ELSE IF Contains(status_lower, Chars("server")) THEN Chars("serverHold")
         ELSE Chars("hold")
    ELSE IF keyword = Chars("redemption")
    THEN Chars("redemptionPeriod")
    ELSE IF keyword = Chars("prohibited")
    THEN IF Contains(status_lower, Chars("transfer")) THEN Chars("transferProhibited")
         ELSE IF Contains(status_lower, Chars("delete")) THEN Chars("deleteProhibited")
         ELSE IF Contains(status_lower, Chars("update")) THEN Chars("updateProhibited")
         ELSE Chars("prohibited")
    ELSE Title(keyword)

\* mutant: the keyword fallback is left out
KeywordMatchNever(status_lower, order) == <<>>

\* lines 331-358: the for loop over the keywords, left at the first hit (break)
KeywordMatch(status_lower, order) ==
    LET hits == {i \in 1..Len(order) : Contains(status_lower, order[i])}
    IN  IF hits = {} THEN <<>>
        ELSE LET first == CHOOSE i \in hits : \A j \in hits : i <= j
             IN  <<KeywordStatusName(order[first], status_lower)>>

\* mutant: the keywords are consulted before the known-bad set
StatusFoundKeywordFirst(status, order) ==
    IF status = <<>> THEN <<>>
    ELSE LET status_str == Strip(status)
         IN  IF status_str = <<>> THEN <<>>
             ELSE IF KeywordMatch(Lower(status_str), order) # <<>>
                  THEN KeywordMatch(Lower(status_str), order)
                  ELSE IF NormalizedStatus(status_str) \in PROBLEMATIC_DOMAIN_STATUSES
                       THEN <<normalize_status_name(NormalizedStatus(status_str))>>
                       ELSE <<>>

\* lines 301-358: what one status of the list appends to problematic_found
StatusFound(status, order) ==
    IF status = <<>> THEN <<>>
    ELSE LET status_str == Strip(status)
         IN  IF status_str = <<>> THEN <<>>
             ELSE IF NormalizedStatus(status_str) \in PROBLEMATIC_DOMAIN_STATUSES
                  THEN <<normalize_status_name(NormalizedStatus(status_str))>>
                  ELSE KeywordMatch(Lower(status_str), order)

\* mutant: no deduplication
KeepDuplicates(found, seen) == found

\* mutant: of a repeated name the last occurrence is kept instead of the first
RECURSIVE UniqueKeepingLast(_, _)
UniqueKeepingLast(found, seen) ==
    IF found = <<>> THEN <<>>
    ELSE IF \E i \in 2..Len(found) : found[i] = Head(found)
         THEN UniqueKeepingLast(Tail(found), seen)
         ELSE <<Head(found)>> \o UniqueKeepingLast(Tail(found), seen)

\* lines 360-366: drop repeated names, keeping the first occurrence of each
RECURSIVE UniquePreservingOrder(_, _)
UniquePreservingOrder(found, seen) ==
    IF found = <<>> THEN <<>>
    ELSE IF Head(found) \in seen
         THEN UniquePreservingOrder(Tail(found), seen)
         ELSE <<Head(found)>>
              \o UniquePreservingOrder(Tail(found), seen \cup {Head(found)})

ProblematicFound(statuses, order) ==
    Concat([i \in 1..Len(statuses) |-> StatusFound(statuses[i], order)])

extract_problematic_statuses(statuses, order) ==
    IF statuses = <<>> THEN <<>>
    ELSE UniquePreservingOrder(ProblematicFound(statuses, order), {})

\* mutant: the parentheses are stripped before the test for a link
ParseStatusStringStripFirst(status_string) ==
    LET parts == SplitWhitespace(status_string)
        cleaned == [i \in 1..Len(parts) |-> StripChars(parts[i], {"(", ")"})]
    IN  SelectSeq(cleaned,
                  LAMBDA clean_part :
                      clean_part # <<>> /\ ~StartsWith(clean_part, Chars("http")))

\* lines 371-400
parse_status_string(status_string) ==
    IF status_string = <<>> THEN <<>>
    ELSE LET parts == SplitWhitespace(status_string)
             kept == SelectSeq(parts,
                        LAMBDA part : ~(StartsWith(part, Chars("http"))
                                        \/ Strip(part) = <<>>))
             cleaned == [i \in 1..Len(kept) |-> StripChars(kept[i], {"(", ")"})]
         IN  SelectSeq(cleaned, LAMBDA clean_part : clean_part # <<>>)

-----------------------------------------------------------------------------
(* whois_client.py: domain format validation *)

MAX_DOMAIN_LENGTH == 253
\* the {0,61} of the label pattern: a label is 1 + at most 61 + 1 characters
MAX_LABEL_INTERIOR == 61

\* s.split(sep) for a one-character separator: empty parts are kept
SplitOn(s, sep) ==
    LET hits == {i \in 1..Len(s) : s[i] = sep}
        cut == [k \in 0..(Cardinality(hits) + 1) |->
                   IF k = 0 THEN 0
                   ELSE IF k > Cardinality(hits) THEN Len(s) + 1
                   ELSE CHOOSE i \in hits : Cardinality({j \in hits : j < i}) = k - 1]
    IN  [k \in 1..(Cardinality(hits) + 1) |-> SubSeq(s, cut[k - 1] + 1, cut[k] - 1)]

\* [a-zA-Z0-9]([a-zA-Z0-9\-]{0,61}[a-zA-Z0-9])?
MatchesLabel(label) ==
    /\ Len(label) >= 1
    /\ IsAlnum(label[1])
    /\ IsAlnum(label[Len(label)])
    /\ Len(label) - 2 <= MAX_LABEL_INTERIOR
    /\ \A i \in 1..Len(label) : IsAlnum(label[i]) \/ label[i] = "-"

\* [a-zA-Z]{2,}
MatchesTld(tld) ==
    /\ Len(tld) >= 2
    /\ \A i \in 1..Len(tld) : IsAlpha(tld[i])

\* lines 455-461: ^label(\.label)*\.tld$
MatchesDomainPattern(domain) ==
    LET parts == SplitOn(domain, ".")
    IN  /\ Len(parts) >= 2
        /\ \A i \in 1..(Len(parts) - 1) : MatchesLabel(parts[i])
        /\ MatchesTld(parts[Len(parts)])

is_valid_domain_format(domain) ==
    IF domain = <<>> THEN FALSE
    ELSE LET stripped == Strip(domain)
         IN  IF Len(stripped) = 0 \/ Len(stripped) > MAX_DOMAIN_LENGTH THEN FALSE
             ELSE IF StartsWith(stripped, <<".">>) \/ EndsWith(stripped, <<".">>) THEN FALSE
             ELSE IF ~Contains(stripped, <<".">>) THEN FALSE
             ELSE MatchesDomainPattern(stripped)

\* a Python value handed to the validator: a str, None or a number
StrValue(str) == [type |-> "str", str |-> str]
NoneValue == [type |-> "NoneType", str |-> <<>>]
NumberValue == [type |-> "int", str |-> <<>>]

\* line 437: `not domain or not isinstance(domain, str)` answers False for a value
\* that is no str
is_valid_domain_format_of(value) ==
    IF value.type # "str" THEN FALSE ELSE is_valid_domain_format(value.str)

(* domain_management.py: validation of the lines of the domains file *)

PRACTICAL_LENGTH_LIMIT == 40
MAX_LABEL_LENGTH == 63

\* domain_pattern.match(domain): `$` matches at the end of the string and also just
\* before a newline that ends it
DomainPatternMatch(domain) ==
    \/ MatchesDomainPattern(domain)
    \/ /\ domain # <<>>
       /\ domain[Len(domain)] = "\n"
       /\ MatchesDomainPattern(SubSeq(domain, 1, Len(domain) - 1))

is_valid_domain(domain) ==
    IF ~DomainPatternMatch(domain) THEN FALSE
    ELSE IF Len(domain) > PRACTICAL_LENGTH_LIMIT THEN FALSE
    ELSE IF ~Contains(domain, <<".">>) THEN FALSE
    ELSE IF StartsWith(domain, <<".">>) \/ EndsWith(domain, <<".">>) THEN FALSE
    ELSE LET labels == SplitOn(domain, ".")
         IN  ~\E k \in 1..Len(labels) :
                 Len(labels[k]) > MAX_LABEL_LENGTH \/ Len(labels[k]) = 0

\* pattern.match(value) raises TypeError for a value that is no str
ValidDomainResult(value) ==
    IF value.type # "str" THEN [raised |-> TRUE, value |-> FALSE]
    ELSE [raised |-> FALSE, value |-> is_valid_domain(value.str)]

-----------------------------------------------------------------------------
(* The lookup response, as the JSON value requests hands back *)

\* A "status" value of the JSON: the key may be absent, hold null, a string, a list
\* of strings, or a value of another type (a non-zero number stands for these).
AbsentStatus == [shape |-> "absent", str |-> <<>>, list |-> <<>>]
NullStatus   == [shape |-> "null",   str |-> <<>>, list |-> <<>>]
NumberStatus == [shape |-> "number", str |-> <<>>, list |-> <<>>]
StrStatus(s)  == [shape |-> "str",  str |-> s,    list |-> <<>>]
ListStatus(l) == [shape |-> "list", str |-> <<>>, list |-> l]

AbsentAvailability == [present |-> FALSE, value |-> <<>>]
Availability(s) == [present |-> TRUE, value |-> s]

\* registryData: shape is "absent" (no key), "null", "not_object" (a string, a list)
\* or "object"; an absent key reads as the empty object.
EmptyRegistryData == [shape |-> "absent", dataError |-> "absent", status |-> AbsentStatus]

EmptyWhoisRecord ==
    [shape |-> "absent", dataError |-> "absent",
     domainAvailability |-> AbsentAvailability, status |-> AbsentStatus,
     registrant |-> "absent", registryData |-> EmptyRegistryData]

\* what requests.get / raise_for_status / response.json() produce
FailedResponse(kind) == [http |-> kind, json |-> "none", WhoisRecord |-> EmptyWhoisRecord]
BodyResponse(kind)   == [http |-> "ok", json |-> kind, WhoisRecord |-> EmptyWhoisRecord]
JsonResponse(record) == [http |-> "ok", json |-> "object", WhoisRecord |-> record]

\* mutant: the not-registered signal is never recognised
MissingWhoisDataIgnored(data_error) == FALSE

\* lines 195 and 515: the signal of a domain that is not registered
MissingWhoisData(data_error) == data_error = "MISSING_WHOIS_DATA"

\* mutant: INCOMPLETE_DATA is left out of the list
IsDataErrorNoDataOnly(data_error) == data_error = "NO_DATA"

\* lines 202, 212, 528 and 544: the data errors handled conservatively
IsDataError(data_error) == data_error \in {"NO_DATA", "INCOMPLETE_DATA"}

\* mutant: a status value of any other type is skipped instead of raising
StatusNeverRaises(field) == FALSE

\* lines 232-252 and 561-574: does reading this status value raise?  A truthy value
\* that is not a list goes to _parse_status_string, whose .split() only str has.
StatusRaises(field) == field.shape = "number"

\* mutant: a status given as one string is ignored
StatusTokensOfListOnly(field) ==
    IF field.shape = "list" THEN field.list ELSE <<>>

\* lines 232-252 and 561-574: the statuses this value adds to all_statuses
StatusTokens(field) ==
    IF field.shape = "list" THEN field.list
    ELSE IF field.shape = "str" THEN parse_status_string(field.str)
    ELSE <<>>

-----------------------------------------------------------------------------
(* whois_client.py: check_domain_status_detailed *)

\* the returned tuple; "requested" records whether requests.get was called
DetailedResult(is_available, statuses, requested) ==
    [called |-> TRUE, raised |-> FALSE, requested |-> requested,
     is_available |-> is_available, problematic_statuses |-> statuses]

\* mutant: the .upper() is forgotten
DetailedAvailabilityVerbatim(whois_record) ==
    IF whois_record.domainAvailability.present
    THEN whois_record.domainAvailability.value
    ELSE <<>>

\* lines 219-228: the availability test of check_domain_status_detailed
DetailedAvailabilityStatus(whois_record) ==
    Upper(IF whois_record.domainAvailability.present
          THEN whois_record.domainAvailability.value
          ELSE <<>>)

\* lines 190-267: from the parsed JSON object to the returned tuple
DetailedFromRecord(whois_record, order) ==
    LET data_error == whois_record.dataError
        registry_data == whois_record.registryData
    IN  IF MissingWhoisData(data_error) THEN DetailedResult(TRUE, <<>>, TRUE)
        ELSE IF IsDataError(data_error)
        THEN DetailedResult(FALSE, <<Chars("dataError")>>, TRUE)
        ELSE IF registry_data.shape \in {"null", "not_object"}
        THEN DetailedResult(FALSE, <<>>, TRUE)                     \* AttributeError
        ELSE IF IsDataError(registry_data.dataError)
        THEN DetailedResult(FALSE, <<Chars("registryDataError")>>, TRUE)
        ELSE IF DetailedAvailabilityStatus(whois_record) # Chars("AVAILABLE")
        THEN DetailedResult(FALSE, <<>>, TRUE)
        ELSE IF StatusRaises(whois_record.status) \/ StatusRaises(registry_data.status)
        THEN DetailedResult(FALSE, <<>>, TRUE)                     \* AttributeError
        ELSE LET all_statuses == StatusTokens(whois_record.status)
                                 \o StatusTokens(registry_data.status)
                 problematic_statuses == extract_problematic_statuses(all_statuses, order)
             IN  DetailedResult(Len(problematic_statuses) = 0, problematic_statuses, TRUE)

\* lines 149-278.  settings is "given" (an instance) or "none"; env_ok tells whether
\* Settings() can be built from the environment.
check_domain_status_detailed(domain, settings, env_ok, response, order) ==
    IF ~is_valid_domain_format(domain) THEN DetailedResult(FALSE, <<>>, FALSE)
    ELSE IF settings = "none" /\ ~env_ok
    THEN DetailedResult(FALSE, <<>>, FALSE)          \* Settings() raises inside the try
    ELSE IF response.http # "ok"
    THEN DetailedResult(FALSE, <<>>, TRUE)           \* Timeout, ConnectionError, HTTPError
    ELSE IF response.json = "invalid"
    THEN DetailedResult(FALSE, <<>>, TRUE)           \* JSONDecodeError
    ELSE IF response.json = "not_object"
    THEN DetailedResult(FALSE, <<>>, TRUE)           \* AttributeError on .get
    ELSE IF response.WhoisRecord.shape \in {"null", "not_object"}
    THEN DetailedResult(FALSE, <<>>, TRUE)           \* AttributeError on .get
    ELSE DetailedFromRecord(response.WhoisRecord, order)

\* lines 103-124
check_domain_availability(domain, settings, env_ok, response, order) ==
    check_domain_status_detailed(domain, settings, env_ok, response, order).is_available

-----------------------------------------------------------------------------
(* whois_client.py: get_enhanced_domain_info *)

\* The DomainInfo returned (dates, registrant and registrar fields are not modelled:
\* they do not enter availability), or the exception that left the function.
DomainInfo(domain_name, is_available, statuses, has_error, error_message) ==
    [called |-> TRUE, raised |-> FALSE, requested |-> TRUE,
     domain_name |-> domain_name, is_available |-> is_available,
     problematic_statuses |-> statuses, has_error |-> has_error,
     error_message |-> error_message]

EnhancedRaised ==
    [called |-> TRUE, raised |-> TRUE, requested |-> FALSE,
     domain_name |-> <<>>, is_available |-> FALSE,
     problematic_statuses |-> <<>>, has_error |-> FALSE, error_message |-> ""]

\* lines 557-558: the availability value get_enhanced_domain_info compares
EnhancedAvailability(whois_record) ==
    IF whois_record.domainAvailability.present
    THEN whois_record.domainAvailability.value
    ELSE Chars("UNAVAILABLE")

\* mutant: availability is the registry flag alone, the problematic statuses are
\* not looked at
EnhancedFromRecordFlagOnly(domain, whois_record, order) ==
    LET data_error == whois_record.dataError
        registry_data == whois_record.registryData
    IN  IF MissingWhoisData(data_error) THEN DomainInfo(domain, TRUE, <<>>, FALSE, "")
        ELSE IF IsDataError(data_error)
        THEN DomainInfo(domain, FALSE, <<Chars("dataError")>>, TRUE, "API data error")
        ELSE IF registry_data.shape \in {"null", "not_object"}
        THEN DomainInfo(domain, FALSE, <<>>, TRUE, "Unexpected error")
        ELSE IF IsDataError(registry_data.dataError)
        THEN DomainInfo(domain, FALSE, <<Chars("registryDataError")>>, TRUE,
                        "Registry data error")
        ELSE IF StatusRaises(whois_record.status) \/ StatusRaises(registry_data.status)
        THEN DomainInfo(domain, FALSE, <<>>, TRUE, "Unexpected error")
        ELSE LET all_statuses == StatusTokens(whois_record.status)
                                 \o StatusTokens(registry_data.status)
                 problematic_statuses == extract_problematic_statuses(all_statuses, order)
                 is_available == EnhancedAvailability(whois_record) = Chars("AVAILABLE")
             IN  IF whois_record.registrant = "string"
                 THEN DomainInfo(domain, FALSE, <<>>, TRUE, "Unexpected error")
                 ELSE DomainInfo(domain, is_available, problematic_statuses, FALSE, "")

\* lines 511-677: from the parsed JSON object to the returned DomainInfo
EnhancedFromRecord(domain, whois_record, order) ==
    LET data_error == whois_record.dataError
        registry_data == whois_record.registryData
    IN  IF MissingWhoisData(data_error) THEN DomainInfo(domain, TRUE, <<>>, FALSE, "")
        ELSE IF IsDataError(data_error)
        THEN DomainInfo(domain, FALSE, <<Chars("dataError")>>, TRUE, "API data error")
        ELSE IF registry_data.shape \in {"null", "not_object"}
        THEN DomainInfo(domain, FALSE, <<>>, TRUE, "Unexpected error")
        ELSE IF IsDataError(registry_data.dataError)
        THEN DomainInfo(domain, FALSE, <<Chars("registryDataError")>>, TRUE,
                        "Registry data error")
        ELSE IF StatusRaises(whois_record.status) \/ StatusRaises(registry_data.status)
        THEN DomainInfo(domain, FALSE, <<>>, TRUE, "Unexpected error")
        ELSE LET all_statuses == StatusTokens(whois_record.status)
                                 \o StatusTokens(registry_data.status)
                 problematic_statuses == extract_problematic_statuses(all_statuses, order)
                 is_available == /\ EnhancedAvailability(whois_record) = Chars("AVAILABLE")
                                 /\ Len(problematic_statuses) = 0
             IN  IF whois_record.registrant = "string"
                 THEN DomainInfo(domain, FALSE, <<>>, TRUE, "Unexpected error")
                 ELSE DomainInfo(domain, is_available, problematic_statuses, FALSE, "")

\* lines 482-700
get_enhanced_domain_info(domain, settings, env_ok, response, order) ==
    IF settings = "none" /\ ~env_ok THEN EnhancedRaised   \* Settings() before the try
    ELSE IF response.http # "ok"
    THEN DomainInfo(domain, FALSE, <<>>, TRUE, "Request failed")
    ELSE IF response.json = "invalid"
    THEN DomainInfo(domain, FALSE, <<>>, TRUE, "Request failed")
    ELSE IF response.json = "not_object"
    THEN DomainInfo(domain, FALSE, <<>>, TRUE, "Unexpected error")
    ELSE IF response.WhoisRecord.shape \in {"null", "not_object"}
    THEN DomainInfo(domain, FALSE, <<>>, TRUE, "Unexpected error")
    ELSE EnhancedFromRecord(domain, response.WhoisRecord, order)

-----------------------------------------------------------------------------
(* core.py: DomainCheckService.check_single_domain *)

\* The service holds the settings it was constructed with, so the lookups it makes
\* never load the configuration themselves.  The legacy format wraps the pair
\* returned by check_domain_status_detailed in a DomainInfo with has_error = False.
check_single_domain(domain, use_enhanced_format, response, order) ==
    IF use_enhanced_format
    THEN get_enhanced_domain_info(domain, "given", TRUE, response, order)
    ELSE LET result == check_domain_status_detailed(domain, "given", TRUE, response, order)
         IN  [DomainInfo(domain, result.is_available, result.problematic_statuses,
                         FALSE, "")
                 EXCEPT !.requested = result.requested]

-----------------------------------------------------------------------------
(* slack_notifier.py: send_slack_alert; core.py: send_slack_notification *)

\* What one call of send_slack_alert did.  Settings() is built before the try; the
\* POST and raise_for_status are inside it, and every exception they raise is logged.
send_slack_alert(settings, env_ok, post_outcome) ==
    IF settings = "none" /\ ~env_ok
    THEN [raised |-> TRUE, posted |-> FALSE, delivered |-> FALSE]
    ELSE [raised |-> FALSE, posted |-> TRUE, delivered |-> post_outcome = "ok"]

\* mutant: errors alone do not cause a notification
ShouldNotifyIgnoringErrors(domain_infos, notify_all) ==
    \/ \E i \in 1..Len(domain_infos) : domain_infos[i].is_available
    \/ notify_all

\* core.py lines 138-145
should_notify(domain_infos, notify_all) ==
    \/ \E i \in 1..Len(domain_infos) : domain_infos[i].is_available
    \/ \E i \in 1..Len(domain_infos) : domain_infos[i].has_error
    \/ notify_all

\* What one call of send_slack_notification did: the value returned, whether the
\* message was formatted, whether it was handed to send_slack_alert, and whether
\* Slack accepted it.  format_outcome is "raises" when
\* format_enhanced_slack_message raises (caught by the except clause).
send_slack_notification(domain_infos, notify_all, format_outcome, post_outcome) ==
    IF should_notify(domain_infos, notify_all) /\ domain_infos # <<>>
    THEN IF format_outcome = "raises"
         THEN [value |-> FALSE, formatted |-> TRUE, alerted |-> FALSE,
               delivered |-> FALSE]
         ELSE LET alert == send_slack_alert("given", TRUE, post_outcome)
              IN  [value |-> TRUE, formatted |-> TRUE, alerted |-> TRUE,
                   delivered |-> alert.delivered]
    ELSE [value |-> FALSE, formatted |-> FALSE, alerted |-> FALSE,
          delivered |-> FALSE]

-----------------------------------------------------------------------------
(* Lookups: one domain checked through both entry points on the same response *)

MaxStatusList == 1

LookupStatuses ==
    { Chars("ok"), Chars("pendingDelete"), Chars("someWeirdLockedStatus") }

LookupStatusStrings ==
    { <<>>,
      Chars("ok inactive"),
      Chars("clientHold (https://www.icann.org/epp#clientHold)") }

MainStatusFields ==
    {AbsentStatus, NullStatus, NumberStatus}
    \cup {StrStatus(s) : s \in LookupStatusStrings}
    \cup {ListStatus(l) : l \in SeqsUpTo(LookupStatuses, MaxStatusList)}

RegistryStatusFields ==
    { AbsentStatus, NumberStatus,
      StrStatus(Chars("ok")),
      ListStatus(<<Chars("serverHold")>>) }

DataErrors == {"absent", "MISSING_WHOIS_DATA", "NO_DATA", "INCOMPLETE_DATA"}

Availabilities ==
    {AbsentAvailability}
    \cup {Availability(Chars(a)) : a \in {"AVAILABLE", "available", "UNAVAILABLE"}}

RegistryDatas ==
    { [EmptyRegistryData EXCEPT !.shape = sh] : sh \in {"absent", "null", "not_object"} }
    \cup { [shape |-> "object", dataError |-> e, status |-> st] :
              e \in DataErrors, st \in RegistryStatusFields }

WhoisRecords ==
    { [EmptyWhoisRecord EXCEPT !.shape = sh] : sh \in {"absent", "null", "not_object"} }
    \cup { [shape |-> "object", dataError |-> e, domainAvailability |-> a,
            status |-> st, registrant |-> rt, registryData |-> rd] :
              e \in DataErrors, a \in Availabilities, st \in MainStatusFields,
              rt \in {"absent", "string"}, rd \in RegistryDatas }

Responses ==
    { FailedResponse(k) : k \in {"timeout", "connection_error", "http_error"} }
    \cup { BodyResponse(k) : k \in {"invalid", "not_object"} }
    \cup { JsonResponse(r) : r \in WhoisRecords }

\* the responses tried with every combination of the other arguments
ProbeResponses ==
    { r \in Responses :
        /\ r.WhoisRecord.registryData.shape = "absent"
        /\ r.WhoisRecord.registrant = "absent"
        /\ r.WhoisRecord.status \in {AbsentStatus, ListStatus(<<Chars("pendingDelete")>>)}
        /\ r.WhoisRecord.dataError \in {"absent", "MISSING_WHOIS_DATA", "NO_DATA"} }

SampleDomains == { Chars("example.com"), Chars("not a domain") }

Call(domain, settings, env_ok, response) ==
    [domain |-> domain, settings |-> settings, env_ok |-> env_ok, response |-> response]

Calls ==
    { Call(Chars("example.com"), "given", TRUE, r) : r \in Responses }
    \cup { Call(d, st, e, r) :
              d \in SampleDomains, st \in {"given", "none"}, e \in BOOLEAN,
              r \in ProbeResponses }

NoCall == Call(<<>>, "given", TRUE, FailedResponse("none"))

NoResult ==
    [called |-> FALSE, raised |-> FALSE, requested |-> FALSE,
     domain_name |-> <<>>, is_available |-> FALSE,
     problematic_statuses |-> <<>>, has_error |-> FALSE, error_message |-> ""]

Init ==
    /\ pc = "start"
    /\ keywordOrder \in {KeywordsAsWritten, Reverse(KeywordsAsWritten)}
    /\ call = NoCall
    /\ detailed = NoResult
    /\ enhanced = NoResult
    /\ domain_statuses = <<>>
    /\ problematic = <<>>
    /\ argument = <<>>
    /\ returned = <<>>

\* a caller checks a domain through the legacy entry point; the lookup service
\* answers with some response
CheckDomainStatusDetailed ==
    /\ pc = "start"
    /\ \E c \in Calls :
          /\ call' = c
          /\ detailed' = check_domain_status_detailed(
                             c.domain, c.settings, c.env_ok, c.response, keywordOrder)
    /\ pc' = "detailed"
    /\ UNCHANGED <<keywordOrder, enhanced, domain_statuses, problematic, argument, returned>>

\* the same domain checked through the enhanced entry point, the lookup service
\* answering with the same response
GetEnhancedDomainInfo ==
    /\ pc = "detailed"
    /\ enhanced' = get_enhanced_domain_info(
                       call.domain, call.settings, call.env_ok, call.response,
                       keywordOrder)
    /\ pc' = "enhanced"
    /\ UNCHANGED <<keywordOrder, call, detailed, domain_statuses, problematic, argument,
                 returned>>

Next == CheckDomainStatusDetailed \/ GetEnhancedDomainInfo

Spec == Init /\ [][Next]_vars

-----------------------------------------------------------------------------
(* Properties of the lookups (specification Spec) *)

Looked == pc \in {"detailed", "enhanced"}
Record == call.response.WhoisRecord
Registry == Record.registryData

\* the response arrived and its JSON is an object whose WhoisRecord is an object
\* (an absent WhoisRecord key reads as the empty object)
ResponseParsed ==
    /\ call.response.http = "ok"
    /\ call.response.json = "object"
    /\ Record.shape \in {"absent", "object"}

\* the registry availability flag reads AVAILABLE, in any letter case
FlagReadsAvailable ==
    /\ ResponseParsed
    /\ Record.domainAvailability.present
    /\ Upper(Record.domainAvailability.value) = Chars("AVAILABLE")

\* the registry availability flag is the literal AVAILABLE
FlagIsLiteralAvailable ==
    /\ ResponseParsed
    /\ Record.domainAvailability.present
    /\ Record.domainAvailability.value = Chars("AVAILABLE")

\* registryData and the status values have a shape the parsing code can read
StatusesWellShaped ==
    /\ Registry.shape \in {"absent", "object"}
    /\ Record.status.shape # "number"
    /\ Registry.status.shape # "number"

NoDataErrorSignal == Record.dataError = "absent" /\ Registry.dataError = "absent"

Verdict(result) == <<result.is_available, result.problematic_statuses>>

C2_UnavailableSkipsClassification ==
    /\ (Looked /\ detailed.requested /\ ResponseParsed /\ NoDataErrorSignal
        /\ ~FlagReadsAvailable) =>
          /\ ~detailed.is_available
          /\ detailed.problematic_statuses = <<>>
    /\ (pc = "enhanced" /\ enhanced.requested /\ ResponseParsed /\ NoDataErrorSignal
        /\ ~FlagReadsAvailable) =>
          /\ ~enhanced.is_available
          /\ enhanced.problematic_statuses = <<>>

WithFlag(c, value) ==
    [c EXCEPT !.response.WhoisRecord.domainAvailability.value = value]

FlagCaseVariants ==
    { WithFlag(call, Upper(Record.domainAvailability.value)),
      WithFlag(call, Lower(Record.domainAvailability.value)) }

\* C3: changing only the letter case of the domainAvailability value changes the
\* verdict of neither function.
C3_FlagCaseInsensitive ==
    (pc = "enhanced" /\ Record.domainAvailability.present) =>
        \A c \in FlagCaseVariants :
            /\ Verdict(check_domain_status_detailed(
                          c.domain, c.settings, c.env_ok, c.response, keywordOrder))
                  = Verdict(detailed)
            /\ Verdict(get_enhanced_domain_info(
                          c.domain, c.settings, c.env_ok, c.response, keywordOrder))
                  = Verdict(enhanced)

NetworkFailure == call.response.http # "ok"

\* the response body is no JSON, or no object, or holds no WhoisRecord object
RecordUnreadable ==
    /\ call.response.http = "ok"
    /\ \/ call.response.json \in {"invalid", "not_object"}
       \/ Record.shape \in {"absent", "null", "not_object"}

RegistryDataUnreadable == ResponseParsed /\ Registry.shape \in {"null", "not_object"}

StatusOfOtherType ==
    /\ ResponseParsed
    /\ \/ Record.status.shape = "number"
       \/ Registry.status.shape = "number"

StatusIsNone ==
    /\ ResponseParsed
    /\ \/ Record.status.shape = "null"
       \/ Registry.status.shape = "null"

DetailedIsNotAvailableAndEmpty ==
    /\ ~detailed.raised
    /\ ~detailed.is_available
    /\ detailed.problematic_statuses = <<>>
    /\ ~check_domain_availability(
            call.domain, call.settings, call.env_ok, call.response, keywordOrder)

NoneAsAbsent(field) == IF field.shape = "null" THEN AbsentStatus ELSE field
WithNoneAsAbsent(c) ==
    [c EXCEPT !.response.WhoisRecord.status = NoneAsAbsent(@),
              !.response.WhoisRecord.registryData.status = NoneAsAbsent(@)]

EnhancedStepFails ==
    \/ (call.settings = "none" /\ ~call.env_ok)
    \/ NetworkFailure
    \/ (call.response.http = "ok" /\ call.response.json \in {"invalid", "not_object"})
    \/ (call.response.http = "ok" /\ Record.shape \in {"null", "not_object"})

\* C5: get_enhanced_domain_info never raises, and when a step fails the DomainInfo
\* has is_available false, has_error true, no problematic status and the queried
\* domain as its domain_name.
C5_EnhancedIsTotal ==
    pc = "enhanced" =>
        /\ ~enhanced.raised
        /\ EnhancedStepFails =>
              /\ ~enhanced.is_available
              /\ enhanced.has_error
              /\ enhanced.problematic_statuses = <<>>
              /\ enhanced.domain_name = call.domain

\* C6: when the WHOIS record carries dataError MISSING_WHOIS_DATA, both functions
\* return available with an empty problematic list, whatever the flag, the status
\* values and registryData hold.
C6_UnregisteredShortCircuits ==
    /\ (Looked /\ detailed.requested /\ ResponseParsed
        /\ Record.dataError = "MISSING_WHOIS_DATA") =>
          /\ detailed.is_available
          /\ detailed.problematic_statuses = <<>>
    /\ (pc = "enhanced" /\ enhanced.requested /\ ResponseParsed
        /\ Record.dataError = "MISSING_WHOIS_DATA") =>
          /\ enhanced.is_available
          /\ enhanced.problematic_statuses = <<>>
          /\ ~enhanced.has_error

\* an unregistered domain whose response also lists a problematic status and a flag
\* that does not read AVAILABLE
C6_Witness ==
    /\ pc = "enhanced" /\ detailed.requested /\ enhanced.requested
    /\ Record.dataError = "MISSING_WHOIS_DATA"
    /\ Record.status = ListStatus(<<Chars("pendingDelete")>>)
    /\ Record.domainAvailability = Availability(Chars("UNAVAILABLE"))
    /\ detailed.is_available
    /\ enhanced.is_available

RecordDataError == ResponseParsed /\ Record.dataError \in {"NO_DATA", "INCOMPLETE_DATA"}
RegistryDataError ==
    /\ ResponseParsed
    /\ Registry.shape = "object"
    /\ Registry.dataError \in {"NO_DATA", "INCOMPLETE_DATA"}

IsOneSentinel(statuses) ==
    statuses \in {<<Chars("dataError")>>, <<Chars("registryDataError")>>}

\* C7 as stated: a NO_DATA or INCOMPLETE_DATA dataError, on the record or on its
\* registryData, always gives not-available with exactly one sentinel entry
\* ('dataError' for the record; for registryData 'registryDataError', or the record's
\* sentinel when the record has a data error too).
C7_DataErrorAlwaysSentinel ==
    /\ (Looked /\ detailed.requested /\ RecordDataError) =>
          /\ ~detailed.is_available
          /\ detailed.problematic_statuses = <<Chars("dataError")>>
    /\ (Looked /\ detailed.requested /\ RegistryDataError) =>
          /\ ~detailed.is_available
          /\ IsOneSentinel(detailed.problematic_statuses)
    /\ (pc = "enhanced" /\ enhanced.requested /\ RecordDataError) =>
          /\ ~enhanced.is_available
          /\ enhanced.problematic_statuses = <<Chars("dataError")>>
    /\ (pc = "enhanced" /\ enhanced.requested /\ RegistryDataError) =>
          /\ ~enhanced.is_available
          /\ IsOneSentinel(enhanced.problematic_statuses)

\* C7 amended: a NO_DATA or INCOMPLETE_DATA dataError on the record always gives
\* not-available with the single entry 'dataError'; the same error on registryData
\* gives not-available with the single entry 'registryDataError' when the record
\* carries no dataError, and the record's own result when it carries one.
C7_DataErrorSentinel ==
    /\ (Looked /\ detailed.requested /\ RecordDataError) =>
          /\ ~detailed.is_available
          /\ detailed.problematic_statuses = <<Chars("dataError")>>
    /\ (Looked /\ detailed.requested /\ RegistryDataError
        /\ Record.dataError = "absent") =>
          /\ ~detailed.is_available
          /\ detailed.problematic_statuses = <<Chars("registryDataError")>>
    /\ (pc = "enhanced" /\ enhanced.requested /\ RecordDataError) =>
          /\ ~enhanced.is_available
          /\ enhanced.problematic_statuses = <<Chars("dataError")>>
    /\ (pc = "enhanced" /\ enhanced.requested /\ RegistryDataError
        /\ Record.dataError = "absent") =>
          /\ ~enhanced.is_available
          /\ enhanced.problematic_statuses = <<Chars("registryDataError")>>

\* registryData reports INCOMPLETE_DATA while the flag reads AVAILABLE and the record
\* has no dataError
C7_Witness ==
    /\ pc = "enhanced" /\ detailed.requested /\ enhanced.requested
    /\ FlagIsLiteralAvailable
    /\ Record.dataError = "absent"
    /\ Registry.shape = "object" /\ Registry.dataError = "INCOMPLETE_DATA"
    /\ detailed.problematic_statuses = <<Chars("registryDataError")>>
    /\ enhanced.problematic_statuses = <<Chars("registryDataError")>>

\* the status tokens of the response: list elements as they are, a string split
AllStatusTokens == StatusTokens(Record.status) \o StatusTokens(Registry.status)

TokenIsKnownBad(token) == NormalizedStatus(Strip(token)) \in PROBLEMATIC_DOMAIN_STATUSES
TokenHasKeyword(token) ==
    \E keyword \in PROBLEMATIC_KEYWORDS : Contains(Lower(token), keyword)

\* C8: with the flag AVAILABLE, no data-error signal and readable status values,
\* check_domain_status_detailed returns (True, []) exactly when no status token is in
\* the known-bad set after normalization and none contains a keyword; otherwise it
\* returns not-available with a non-empty list; 'ok' and 'inactive' are never listed.
C8_AvailableIffNoProblematicToken ==
    (Looked /\ detailed.requested /\ FlagReadsAvailable /\ NoDataErrorSignal
     /\ StatusesWellShaped) =>
        /\ (detailed.is_available /\ detailed.problematic_statuses = <<>>)
              = (\A i \in 1..Len(AllStatusTokens) :
                    /\ ~TokenIsKnownBad(AllStatusTokens[i])
                    /\ ~TokenHasKeyword(AllStatusTokens[i]))
        /\ detailed.is_available = (detailed.problematic_statuses = <<>>)
        /\ Chars("ok") \notin Range(detailed.problematic_statuses)
        /\ Chars("inactive") \notin Range(detailed.problematic_statuses)

\* flag AVAILABLE and the benign statuses 'ok inactive': reported available
C8_Witness ==
    /\ Looked /\ detailed.requested /\ FlagReadsAvailable /\ NoDataErrorSignal
    /\ Record.status = StrStatus(Chars("ok inactive"))
    /\ Registry.shape = "absent"
    /\ detailed.is_available
    /\ detailed.problematic_statuses = <<>>

\* flag AVAILABLE and a status caught only by the keyword fallback: not available
C8_WitnessKeyword ==
    /\ Looked /\ detailed.requested /\ FlagReadsAvailable /\ NoDataErrorSignal
    /\ Record.status = ListStatus(<<Chars("someWeirdLockedStatus")>>)
    /\ Registry.shape = "absent"
    /\ ~detailed.is_available
    /\ detailed.problematic_statuses = <<Chars("Locked")>>

-----------------------------------------------------------------------------
(* Classifier runs: _extract_problematic_statuses applied to token lists *)

MaxStatuses == 3

SampleStatuses ==
    { Chars("ok"),
      Chars("pendingDelete"), Chars("PendingDelete"), Chars("pending-delete"),
      Chars("serverHold"),
      Chars("my-cli-ent-hold"), Chars("myClientHold"),
      Chars("pending hold") }

InitExtract ==
    /\ pc = "start"
    /\ keywordOrder \in KeywordOrders
    /\ call = NoCall
    /\ detailed = NoResult
    /\ enhanced = NoResult
    /\ domain_statuses = <<>>
    /\ problematic = <<>>
    /\ argument = <<>>
    /\ returned = <<>>

ExtractProblematicStatuses ==
    /\ pc = "start"
    /\ \E statuses \in SeqsUpTo(SampleStatuses, MaxStatuses) :
          /\ domain_statuses' = statuses
          /\ problematic' = extract_problematic_statuses(statuses, keywordOrder)
    /\ pc' = "extracted"
    /\ UNCHANGED <<keywordOrder, call, detailed, enhanced, argument, returned>>

NextExtract == ExtractProblematicStatuses

SpecExtract == InitExtract /\ [][NextExtract]_vars

-----------------------------------------------------------------------------
(* Properties of the classifier (specification SpecExtract) *)

Extracted == pc = "extracted"

NoDuplicates(seq) == \A i, j \in 1..Len(seq) : seq[i] = seq[j] => i = j

\* the two tokens are the same once letter case and the separators space, hyphen
\* and underscore are disregarded
SameUpToCaseAndSeparators(a, b) ==
    RemoveChars(Lower(a), {" ", "-", "_"}) = RemoveChars(Lower(b), {" ", "-", "_"})

SameUpToCase(a, b) == Lower(a) = Lower(b)

\* the entries the two tokens give together
EntriesOfPair(a, b) == extract_problematic_statuses(<<a, b>>, keywordOrder)

\* C9 as stated: the returned list never holds a display name twice, and tokens that
\* differ only in letter case or in space/hyphen/underscore separators collapse to
\* one entry.
C9_VariantsCollapse ==
    Extracted =>
        /\ NoDuplicates(problematic)
        /\ \A i, j \in 1..Len(domain_statuses) :
              SameUpToCaseAndSeparators(domain_statuses[i], domain_statuses[j]) =>
                  Len(EntriesOfPair(domain_statuses[i], domain_statuses[j])) <= 1

\* C9 amended: the returned list never holds a display name twice; tokens that differ
\* only in letter case collapse to one entry, and tokens that differ only in letter
\* case or separators and whose normalized form is in the known-bad set collapse to
\* exactly one entry.
C9_NoDuplicates ==
    Extracted =>
        /\ NoDuplicates(problematic)
        /\ \A j \in 2..Len(domain_statuses) : \A i \in 1..(j - 1) :
              LET a == domain_statuses[i]
                  b == domain_statuses[j]
              IN  /\ SameUpToCase(a, b) => Len(EntriesOfPair(a, b)) <= 1
                  /\ (SameUpToCaseAndSeparators(a, b) /\ TokenIsKnownBad(a)) =>
                        /\ Len(EntriesOfPair(a, b)) = 1
                        /\ Len(SelectSeq(problematic,
                                 LAMBDA name : name = EntriesOfPair(a, b)[1])) = 1

\* the three spellings of pendingDelete give the one entry pendingDelete
C9_Witness ==
    /\ Extracted
    /\ domain_statuses
          = <<Chars("pendingDelete"), Chars("PendingDelete"), Chars("pending-delete")>>
    /\ problematic = <<Chars("pendingDelete")>>

\* what each token of the list resolves to: <<name>>, or <<>> for a token that is
\* not problematic
Resolved ==
    SubSeq([i \in 1..Len(domain_statuses) |->
                StatusFound(domain_statuses[i], keywordOrder)],
           1, Len(domain_statuses))
FirstResolving(resolved, name) ==
    CHOOSE i \in 1..Len(resolved) :
        /\ resolved[i] = <<name>>
        /\ \A j \in 1..(i - 1) : resolved[j] # <<name>>

\* C10: the returned list holds exactly the display names some token resolves to,
\* ordered by the position of the first token resolving to each.
C10_FirstSeenOrder ==
    Extracted =>
        LET resolved == Resolved
        IN  /\ \A n \in 1..Len(problematic) :
                  \E i \in 1..Len(resolved) : resolved[i] = <<problematic[n]>>
            /\ \A i \in 1..Len(resolved) :
                  resolved[i] # <<>> => resolved[i][1] \in Range(problematic)
            /\ \A n \in 2..Len(problematic) : \A m \in 1..(n - 1) :
                  FirstResolving(resolved, problematic[m])
                      < FirstResolving(resolved, problematic[n])

\* tokens [A, B, A] with distinct names give [name(A), name(B)]
C10_Witness ==
    /\ Extracted
    /\ domain_statuses
          = <<Chars("serverHold"), Chars("pendingDelete"), Chars("serverHold")>>
    /\ problematic = <<Chars("serverHold"), Chars("pendingDelete")>>

-----------------------------------------------------------------------------
(* Classification of one status token (specification SpecClassify) *)

\* the known-bad statuses in the spelling the registries use
ExactTokens ==
    { Chars("pendingDelete"), Chars("redemptionPeriod"), Chars("renewPeriod"),
      Chars("clientHold"), Chars("serverHold"),
      Chars("transferPeriod"), Chars("pendingTransfer"),
      Chars("clientTransferProhibited"), Chars("serverTransferProhibited"),
      Chars("clientDeleteProhibited"), Chars("serverDeleteProhibited"),
      Chars("clientUpdateProhibited"), Chars("serverUpdateProhibited"),
      Chars("registrantVerificationPending"), Chars("pendingVerification"),
      Chars("pendingNotification"), Chars("addPeriod"), Chars("autoRenewPeriod"),
      Chars("pendingCreate"), Chars("pendingUpdate"), Chars("pendingRenew"),
      Chars("pendingRelease"), Chars("pendingRebill"), Chars("pendingRestore") }

\* tokens outside the known-bad set: one or more keywords, or none
KeywordTokens ==
    { Chars("pending delete soon"), Chars("pendingReview"),
      Chars("hold"), Chars("clientOnHold"), Chars("serverOnHold"),
      Chars("registrarHold"),
      Chars("redemption"), Chars("inRedemption"),
      Chars("transferProhibited"), Chars("deleteProhibited"),
      Chars("updateProhibited"), Chars("renewProhibited"),
      Chars("client update and transfer prohibited"),
      Chars("gracePeriod"), Chars("locked"), Chars("suspended"),
      Chars("expired"), Chars("quarantine"), Chars("frozen"),
      Chars("pending hold"), Chars("server hold pending delete"),
      Chars("lockedAndFrozen"), Chars("redemption grace") }

BenignTokens ==
    { Chars("ok"), Chars("active"), Chars("inactive"), Chars("connected"),
      <<>>, Chars("  "), Chars("-\tok"), Chars("(ok)") }

\* the status with the explanatory link some registries append
WithUrl(token) ==
    token \o Chars(" (https://icann.org/epp#") \o token \o <<")">>
\* the status with a separator after its first n characters
WithSeparator(token, sep, n) ==
    IF Len(token) <= n THEN token
    ELSE SubSeq(token, 1, n) \o <<sep>> \o SubSeq(token, n + 1, Len(token))

Spellings(token) ==
    { token, Upper(token), Lower(token), WithUrl(token),
      <<" ">> \o token \o <<" ">>,
      WithSeparator(token, "-", 1), WithSeparator(token, "_", 6) }

SampleTokens ==
    UNION {Spellings(token) : token \in ExactTokens \cup KeywordTokens \cup BenignTokens}

InitClassify ==
    /\ pc = "start"
    /\ keywordOrder \in KeywordOrders
    /\ call = NoCall
    /\ detailed = NoResult
    /\ enhanced = NoResult
    /\ domain_statuses = <<>>
    /\ problematic = <<>>
    /\ argument = <<>>
    /\ returned = <<>>

ClassifyToken ==
    /\ pc = "start"
    /\ \E token \in SampleTokens :
          /\ domain_statuses' = <<token>>
          /\ problematic' = extract_problematic_statuses(<<token>>, keywordOrder)
    /\ pc' = "classified"
    /\ UNCHANGED <<keywordOrder, call, detailed, enhanced, argument, returned>>

NextClassify == ClassifyToken

SpecClassify == InitClassify /\ [][NextClassify]_vars

-----------------------------------------------------------------------------
(* Properties of the classification of one token (specification SpecClassify) *)

Classified == pc = "classified"
Token == domain_statuses[1]

\* the six statuses with a camelCase display name
CamelCaseNames ==
    { <<Chars("pendingdelete"), Chars("pendingDelete")>>,
      <<Chars("redemptionperiod"), Chars("redemptionPeriod")>>,
      <<Chars("clienthold"), Chars("clientHold")>>,
      <<Chars("serverhold"), Chars("serverHold")>>,
      <<Chars("renewperiod"), Chars("renewPeriod")>>,
      <<Chars("transferperiod"), Chars("transferPeriod")>> }

DisplayOfKnownBad(normalized) ==
    IF \E pair \in CamelCaseNames : pair[1] = normalized
    THEN (CHOOSE pair \in CamelCaseNames : pair[1] = normalized)[2]
    ELSE normalized

C11_WitnessRenamed ==
    /\ Classified
    /\ Token = Chars("clientHold (https://icann.org/epp#clientHold)")
    /\ problematic = <<Chars("clientHold")>>

\* C12: a token whose normalized form is in the known-bad set is resolved by the
\* exact-match table alone: it gives the one entry it gives when there are no
\* keywords at all, whatever keywords it contains and whatever their order.
C12_ExactMatchWins ==
    (Classified /\ TokenIsKnownBad(Token)) =>
        /\ Len(problematic) = 1
        /\ problematic = extract_problematic_statuses(<<Token>>, <<>>)
        /\ \A order \in KeywordOrders :
              extract_problematic_statuses(<<Token>>, order) = problematic

\* pendingTransfer contains the keyword pending, which alone would give Pending; the
\* entry is the table's pendingtransfer
C12_Witness ==
    /\ Classified
    /\ Token = Chars("pendingTransfer")
    /\ KeywordMatch(Lower(Token), keywordOrder) = <<Chars("Pending")>>
    /\ problematic = <<Chars("pendingtransfer")>>

\* the lowercased original token, as the keyword rules read it
Lowered == Lower(Strip(Token))

KeywordFires == \E i \in 1..Len(keywordOrder) : Contains(Lowered, keywordOrder[i])

\* the first keyword, in this process's order, that is a substring of the token
FiredKeyword ==
    keywordOrder[CHOOSE i \in 1..Len(keywordOrder) :
                    /\ Contains(Lowered, keywordOrder[i])
                    /\ \A j \in 1..(i - 1) : ~Contains(Lowered, keywordOrder[j])]

FirstLetterUppercased(word) == <<UpperChar(Head(word))>> \o Tail(word)

\* the sub-rules as the specification lists them
SubRuleName(keyword, lowered) ==
    CASE keyword = Chars("pending") /\ Contains(lowered, Chars("delete")) ->
            Chars("pendingDelete")
      [] keyword = Chars("hold") /\ Contains(lowered, Chars("client")) ->
            Chars("clientHold")
      [] keyword = Chars("hold") /\ ~Contains(lowered, Chars("client"))
            /\ Contains(lowered, Chars("server")) ->
            Chars("serverHold")
      [] keyword = Chars("hold") /\ ~Contains(lowered, Chars("client"))
            /\ ~Contains(lowered, Chars("server")) ->
            Chars("hold")
      [] keyword = Chars("redemption") -> Chars("redemptionPeriod")
      [] keyword = Chars("prohibited") /\ Contains(lowered, Chars("transfer")) ->
            Chars("transferProhibited")
      [] keyword = Chars("prohibited") /\ ~Contains(lowered, Chars("transfer"))
            /\ Contains(lowered, Chars("delete")) ->
            Chars("deleteProhibited")
      [] keyword = Chars("prohibited") /\ ~Contains(lowered, Chars("transfer"))
            /\ ~Contains(lowered, Chars("delete"))
            /\ Contains(lowered, Chars("update")) ->
            Chars("updateProhibited")
      [] keyword = Chars("prohibited") /\ ~Contains(lowered, Chars("transfer"))
            /\ ~Contains(lowered, Chars("delete"))
            /\ ~Contains(lowered, Chars("update")) ->
            Chars("prohibited")
      [] OTHER -> FirstLetterUppercased(keyword)

\* C13: a token with no exact match in which a keyword fires gives the one display
\* name the sub-rules assign to the fired keyword, read on the lowercased original
\* token.
C13_KeywordSubRules ==
    (Classified /\ Token # <<>> /\ ~TokenIsKnownBad(Token) /\ KeywordFires) =>
        problematic = <<SubRuleName(FiredKeyword, Lowered)>>

\* prohibited with both update and transfer in the token: transfer is checked first
C13_Witness ==
    /\ Classified
    /\ Token = Chars("client update and transfer prohibited")
    /\ FiredKeyword = Chars("prohibited")
    /\ problematic = <<Chars("transferProhibited")>>

\* pending without delete gives the keyword with its first letter uppercased
C13_WitnessPending ==
    /\ Classified
    /\ Token = Chars("pendingReview")
    /\ problematic = <<Chars("Pending")>>

\* C14: the keywords are scanned in one fixed order, so a token gives at most one
\* display name and gives the same display name in every run of the program.
C14_SameNameOnEveryRun ==
    Classified =>
        /\ Len(problematic) <= 1
        /\ \A order \in KeywordOrders :
              extract_problematic_statuses(<<Token>>, order) = problematic

-----------------------------------------------------------------------------
(* Validation of one domain argument (specification SpecValidate) *)

\* how many labels precede the last one
MaxLabels == 1

Repeat(c, n) == [i \in 1..n |-> c]

SampleLabels ==
    { Chars("a"), Chars("a-b"), Chars("-a"), Chars("a_b"), <<>>,
      Repeat("a", 63), Repeat("a", 64),
      <<"a", SharpS>>, <<KelvinSign>> }

SampleTlds ==
    { Chars("com"), Chars("CoM"), Chars("c"), Chars("c0"), <<>>,
      Repeat("b", 63), Repeat("b", 64) }

RECURSIVE JoinLabels(_)
JoinLabels(labels) ==
    IF labels = <<>> THEN <<>>
    ELSE IF Len(labels) = 1 THEN labels[1]
    ELSE labels[1] \o <<".">> \o JoinLabels(Tail(labels))

DomainStrings ==
    { JoinLabels(Append(labels, tld)) :
          labels \in SeqsUpTo(SampleLabels, MaxLabels), tld \in SampleTlds }

SampleValues ==
    {StrValue(d) : d \in DomainStrings}
    \cup {StrValue(d \o <<"\n">>) : d \in DomainStrings}
    \cup {StrValue(Chars("not a domain")), StrValue(Chars("example.com")),
          StrValue(Chars("  ")), NoneValue, NumberValue}

InitValidate ==
    /\ pc = "start"
    /\ keywordOrder = KeywordsAsWritten
    /\ call = NoCall
    /\ detailed = NoResult
    /\ enhanced = NoResult
    /\ domain_statuses = <<>>
    /\ problematic = <<>>
    /\ argument = <<>>
    /\ returned = <<>>

\* one value is handed to _is_valid_domain_format and to _is_valid_domain
ValidateDomain ==
    /\ pc = "start"
    /\ \E value \in SampleValues :
          /\ argument' = value
          /\ returned' = [format |-> is_valid_domain_format_of(value),
                          listed |-> ValidDomainResult(value)]
    /\ pc' = "validated"
    /\ UNCHANGED <<keywordOrder, call, detailed, enhanced, domain_statuses, problematic>>

NextValidate == ValidateDomain

SpecValidate == InitValidate /\ [][NextValidate]_vars

-----------------------------------------------------------------------------
(* Properties of the validators (specification SpecValidate) *)

Validated == pc = "validated"
IsStrArgument == Validated /\ argument.type = "str"
\* the argument without surrounding whitespace
Domain == Strip(argument.str)

HasNoDot == ~Contains(Domain, <<".">>)
StartsOrEndsWithDot == StartsWith(Domain, <<".">>) \/ EndsWith(Domain, <<".">>)
\* some dot-separated label, the last one included, is longer than 63 characters
HasOverlongLabel ==
    \E k \in 1..Len(SplitOn(Domain, ".")) : Len(SplitOn(Domain, ".")[k]) > 63

RejectedByBoth == ~returned.format /\ ~returned.listed.value

\* C15: a string without a dot, a string that starts or ends with a dot, and a string
\* with a label (the last one included) longer than 63 characters is rejected by
\* _is_valid_domain_format and by _is_valid_domain.
C15_RejectsMalformedDomains ==
    (IsStrArgument /\ (HasNoDot \/ StartsOrEndsWithDot \/ HasOverlongLabel)) =>
        RejectedByBoth

-----------------------------------------------------------------------------
(* Properties of the lookups: validation before the request *)

InvalidDomain == ~is_valid_domain_format(call.domain)

\* the result is not-available with an empty list, reached without a lookup request
NotAvailableWithoutRequest(result) ==
    /\ ~result.requested
    /\ ~result.is_available
    /\ result.problematic_statuses = <<>>

\* C16: a domain that fails format validation never causes a lookup request and
\* resolves to not-available with an empty problematic list, through
\* check_domain_status_detailed, get_enhanced_domain_info, and check_single_domain
\* in enhanced and in legacy format.
C16_NoRequestForInvalidDomain ==
    /\ (Looked /\ InvalidDomain) => NotAvailableWithoutRequest(detailed)
    /\ (pc = "enhanced" /\ InvalidDomain) =>
          /\ NotAvailableWithoutRequest(enhanced)
          /\ \A use_enhanced_format \in BOOLEAN :
                NotAvailableWithoutRequest(
                    check_single_domain(call.domain, use_enhanced_format,
                                        call.response, keywordOrder))

\* the answers for the argument in lowercase, in uppercase, and with whitespace added
\* are the answer for the argument
SameAnswerForVariants(s) ==
    /\ is_valid_domain_format(Lower(s)) = returned.format
    /\ is_valid_domain_format(Upper(s)) = returned.format
    /\ \A pad \in {" ", "\t", "\n"} :
          /\ is_valid_domain_format(<<pad>> \o s) = returned.format
          /\ is_valid_domain_format(s \o <<pad>>) = returned.format
          /\ is_valid_domain_format(<<pad, pad>> \o s \o <<pad>>) = returned.format

\* C17 as stated: for any string the validator gives the same answer for the string,
\* its lowercase, its uppercase and the string with whitespace around it; a value
\* that is no string is answered False.
C17_CaseInsensitiveForAnyString ==
    Validated =>
        IF argument.type = "str"
        THEN SameAnswerForVariants(argument.str)
        ELSE returned.format = FALSE

IsAscii(s) == \A i \in 1..Len(s) : s[i] \notin {SharpS, KelvinSign}

\* C17 amended: the same, for strings of ASCII characters.  (The uppercase of the
\* sharp s is SS and the lowercase of the Kelvin sign is k: a string rejected for
\* such a character can become a valid domain when its case is changed.)
C17_CaseInsensitiveForAscii ==
    Validated =>
        IF argument.type = "str"
        THEN IsAscii(argument.str) => SameAnswerForVariants(argument.str)
        ELSE returned.format = FALSE

\* a mixed-case domain is accepted, as are its lowercase and uppercase
C17_Witness ==
    /\ Validated
    /\ argument = StrValue(Chars("a-b.CoM"))
    /\ returned.format
    /\ is_valid_domain_format(Upper(argument.str))
    /\ is_valid_domain_format(Lower(argument.str))

-----------------------------------------------------------------------------
(* Splitting of one combined status string (specification SpecParse) *)

\* how many tokens a status string holds
MaxParts == 2

SampleParts ==
    { Chars("ok"), Chars("clientHold"), Chars("(clientHold)"), Chars("((ok))"),
      Chars("https://icann.org/epp#ok"), Chars("(https://icann.org/epp#ok)"),
      Chars("http"), Chars("HTTP://x"), Chars("()"), Chars("("), Chars("a(b)") }

SampleSeparators == { <<" ">>, <<" ", " ">>, <<"\t">>, <<"\n">> }

RECURSIVE JoinParts(_, _)
JoinParts(parts, sep) ==
    IF parts = <<>> THEN <<>>
    ELSE IF Len(parts) = 1 THEN parts[1]
    ELSE parts[1] \o sep \o JoinParts(Tail(parts), sep)

\* the tokens and the string that holds them, separated and possibly surrounded by
\* whitespace
StatusStrings ==
    { [parts |-> parts, str |-> pad \o JoinParts(parts, sep) \o pad] :
          parts \in SeqsUpTo(SampleParts, MaxParts),
          sep \in SampleSeparators, pad \in {<<>>, <<" ">>} }

InitParse ==
    /\ pc = "start"
    /\ keywordOrder = KeywordsAsWritten
    /\ call = NoCall
    /\ detailed = NoResult
    /\ enhanced = NoResult
    /\ domain_statuses = <<>>
    /\ problematic = <<>>
    /\ argument = <<>>
    /\ returned = <<>>

ParseStatusString ==
    /\ pc = "start"
    /\ \E status_string \in StatusStrings :
          /\ argument' = status_string
          /\ returned' = parse_status_string(status_string.str)
    /\ pc' = "parsed"
    /\ UNCHANGED <<keywordOrder, call, detailed, enhanced, domain_statuses, problematic>>

NextParse == ParseStatusString

SpecParse == InitParse /\ [][NextParse]_vars

-----------------------------------------------------------------------------
(* Properties of the splitting (specification SpecParse) *)

Parsed == pc = "parsed"

IsParenthesis(c) == c \in {"(", ")"}

RECURSIVE WithoutOuterParentheses(_)
WithoutOuterParentheses(token) ==
    IF token = <<>> THEN <<>>
    ELSE IF IsParenthesis(Head(token)) THEN WithoutOuterParentheses(Tail(token))
    ELSE IF IsParenthesis(token[Len(token)])
         THEN WithoutOuterParentheses(SubSeq(token, 1, Len(token) - 1))
         ELSE token

\* of the tokens in order: those not starting with http, without their outer
\* parentheses, those left empty dropped
RECURSIVE ExpectedStatuses(_)
ExpectedStatuses(tokens) ==
    IF tokens = <<>> THEN <<>>
    ELSE LET token == Head(tokens)
             rest == ExpectedStatuses(Tail(tokens))
         IN  IF Len(token) >= 4 /\ SubSeq(token, 1, 4) = <<"h", "t", "t", "p">>
             THEN rest
             ELSE IF WithoutOuterParentheses(token) = <<>> THEN rest
             ELSE <<WithoutOuterParentheses(token)>> \o rest

C18_WitnessLinkDropped ==
    /\ Parsed
    /\ argument.str = Chars("ok https://icann.org/epp#ok")
    /\ returned = <<Chars("ok")>>

\* C19 as stated: normalizing the normalized form of a token gives the normalized
\* form again, for every token whose normalized form is not empty.
C19_NormalizeIdempotent ==
    (Classified /\ Normalize(Token) # <<>>) =>
        Normalize(Normalize(Token)) = Normalize(Token)

\* the token holds no whitespace character other than the space
OnlySpacesAsWhitespace(token) ==
    \A i \in 1..Len(token) : token[i] \in Whitespace => token[i] = " "

\* C19 amended: the same, for tokens that hold no whitespace other than spaces.  (A
\* tab or newline that follows a leading hyphen or underscore survives the trim and
\* the removal of separators, and is trimmed only by a second normalization.)
C19_NormalizeIdempotentOnSpacedTokens ==
    (Classified /\ Normalize(Token) # <<>> /\ OnlySpacesAsWhitespace(Token)) =>
        Normalize(Normalize(Token)) = Normalize(Token)

\* a status with capitals and link normalizes to clienthold, which normalizes to
\* itself
C19_Witness ==
    /\ Classified
    /\ Token = WithUrl(Chars("clientHold"))
    /\ Normalize(Token) = Chars("clienthold")
    /\ Normalize(Normalize(Token)) = Chars("clienthold")

-----------------------------------------------------------------------------
(* Notification about one list of results (specification SpecNotify) *)

\* how many results a notification covers
MaxInfos == 2

SampleInfos ==
    { DomainInfo(Chars("example.com"), is_available, <<>>, has_error, "") :
          is_available \in BOOLEAN, has_error \in BOOLEAN }

FormatOutcomes == {"ok", "raises"}
PostOutcomes == {"ok", "timeout", "http_error"}

InitNotify ==
    /\ pc = "start"
    /\ keywordOrder = KeywordsAsWritten
    /\ call = NoCall
    /\ detailed = NoResult
    /\ enhanced = NoResult
    /\ domain_statuses = <<>>
    /\ problematic = <<>>
    /\ argument = <<>>
    /\ returned = <<>>

SendSlackNotification ==
    /\ pc = "start"
    /\ \E domain_infos \in SeqsUpTo(SampleInfos, MaxInfos), notify_all \in BOOLEAN,
          format_outcome \in FormatOutcomes, post_outcome \in PostOutcomes :
          /\ argument' = [domain_infos |-> domain_infos, notify_all |-> notify_all,
                          format_outcome |-> format_outcome,
                          post_outcome |-> post_outcome]
          /\ returned' = send_slack_notification(
                             domain_infos, notify_all, format_outcome, post_outcome)
    /\ pc' = "notified"
    /\ UNCHANGED <<keywordOrder, call, detailed, enhanced, domain_statuses, problematic>>

\* what the POST inside send_slack_alert can do: succeed, or fail with a timeout, a
\* connection error, an HTTP error status or any other exception
AlertPostOutcomes == PostOutcomes \cup {"connection_error", "other_error"}

\* a caller hands one message to send_slack_alert, with a settings object or with
\* None (the settings are then loaded from the environment, which may be incomplete)
SendSlackAlert ==
    /\ pc = "start"
    /\ \E settings \in {"given", "none"}, env_ok \in BOOLEAN,
          post_outcome \in AlertPostOutcomes :
          /\ argument' = [settings |-> settings, env_ok |-> env_ok,
                          post_outcome |-> post_outcome]
          /\ returned' = send_slack_alert(settings, env_ok, post_outcome)
    /\ pc' = "alerted"
    /\ UNCHANGED <<keywordOrder, call, detailed, enhanced, domain_statuses, problematic>>

NextNotify == SendSlackNotification \/ SendSlackAlert

SpecNotify == InitNotify /\ [][NextNotify]_vars

-----------------------------------------------------------------------------
(* Properties of the notification (specification SpecNotify) *)

Notified == pc = "notified"

SomeAvailable ==
    \E i \in 1..Len(argument.domain_infos) : argument.domain_infos[i].is_available
SomeError ==
    \E i \in 1..Len(argument.domain_infos) : argument.domain_infos[i].has_error

NotificationDue ==
    /\ Len(argument.domain_infos) > 0
    /\ (SomeAvailable \/ SomeError \/ argument.notify_all)

C20_WitnessNothingSent ==
    /\ Notified
    /\ argument.domain_infos = <<DomainInfo(Chars("example.com"), FALSE, <<>>, FALSE, "")>>
    /\ ~argument.notify_all
    /\ ~returned.alerted
    /\ ~returned.value

\* C21: send_slack_notification returns True only if the notification was sent
\* successfully: whenever the webhook POST fails (timeout, connection error, HTTP
\* error status) the method returns False.
C21_TrueOnlyIfDelivered ==
    Notified => (returned.value => returned.delivered)

Alerted == pc = "alerted"

\* C22: send_slack_alert never propagates an exception to its caller, for every
\* settings argument (None included) and every outcome of the webhook POST.
C22_AlertNeverRaises ==
    Alerted => ~returned.raised

-----------------------------------------------------------------------------
(* core.py: DomainCheckService.check_multiple_domains (specification SpecBatch) *)

\* how many domains one batch holds
MaxDomains == 2

BatchDomains == { Chars("example.com"), Chars("test.org"), Chars("not a domain") }

RecordWith(data_error, availability, status) ==
    [EmptyWhoisRecord EXCEPT !.shape = "object", !.dataError = data_error,
                             !.domainAvailability = availability, !.status = status]

\* what the lookup service answers to one request of the batch
BatchResponses ==
    { FailedResponse("timeout"),
      BodyResponse("invalid"),
      JsonResponse(RecordWith("MISSING_WHOIS_DATA", AbsentAvailability, AbsentStatus)),
      JsonResponse(RecordWith("NO_DATA", AbsentAvailability, AbsentStatus)),
      JsonResponse(RecordWith("absent", Availability(Chars("AVAILABLE")),
                              ListStatus(<<Chars("pendingDelete")>>))),
      JsonResponse(RecordWith("absent", Availability(Chars("UNAVAILABLE")),
                              ListStatus(<<Chars("ok")>>))) }

\* check_single_domain left by an exception instead of a DomainInfo
CheckRaised == [NoResult EXCEPT !.called = TRUE, !.raised = TRUE]

\* lines 91-93: the three lists before the loop; responses and outcomes log what
\* the lookup service answered and what each call of check_single_domain produced
EmptyBatch == [available_domains |-> <<>>, domain_infos |-> <<>>, errors |-> <<>>,
               responses |-> <<>>, outcomes |-> <<>>, total_domains |-> 0]

\* mutant: a domain whose check raises is not recorded
LoopBodyDroppingRaised(locals, domain, outcome) ==
    LET logged == [locals EXCEPT !.outcomes = Append(@, outcome)]
    IN  IF outcome.raised THEN logged
        ELSE LET with_info == [logged EXCEPT !.domain_infos = Append(@, outcome)]
             IN  IF outcome.has_error
                 THEN [with_info EXCEPT !.errors =
                          Append(@, [domain |-> domain,
                                     message |-> outcome.error_message])]
                 ELSE IF outcome.is_available
                 THEN [with_info EXCEPT !.available_domains = Append(@, domain)]
                 ELSE with_info

\* lines 95-110: one iteration of the loop.  An entry of errors is the string
\* f"{domain}: {message}", kept as the pair it is built from.
LoopBody(locals, domain, outcome) ==
    LET logged == [locals EXCEPT !.outcomes = Append(@, outcome)]
    IN  IF outcome.raised
        THEN [logged EXCEPT !.errors =
                 Append(@, [domain |-> domain, message |-> "exception"])]
        ELSE LET with_info == [logged EXCEPT !.domain_infos = Append(@, outcome)]
             IN  IF outcome.has_error
                 THEN [with_info EXCEPT !.errors =
                          Append(@, [domain |-> domain,
                                     message |-> outcome.error_message])]
                 ELSE IF outcome.is_available
                 THEN [with_info EXCEPT !.available_domains = Append(@, domain)]
                 ELSE with_info

InitBatch ==
    /\ pc = "start"
    /\ keywordOrder = KeywordsAsWritten
    /\ call = NoCall
    /\ detailed = NoResult
    /\ enhanced = NoResult
    /\ domain_statuses = <<>>
    /\ problematic = <<>>
    /\ argument = <<>>
    /\ returned = <<>>

\* lines 88-93: a caller hands a list of domains to check_multiple_domains
CheckMultipleDomains ==
    /\ pc = "start"
    /\ \E domains \in SeqsUpTo(BatchDomains, MaxDomains), use_enhanced_format \in BOOLEAN :
          argument' = [domains |-> domains, use_enhanced_format |-> use_enhanced_format]
    /\ returned' = EmptyBatch
    /\ pc' = "loop"
    /\ UNCHANGED <<keywordOrder, call, detailed, enhanced, domain_statuses, problematic>>

\* lines 95-104: the next domain is checked and the lookup service answers
CheckNextDomain ==
    /\ pc = "loop"
    /\ Len(returned.outcomes) < Len(argument.domains)
    /\ LET domain == argument.domains[Len(returned.outcomes) + 1]
       IN  \E response \in BatchResponses :
              returned' = LoopBody([returned EXCEPT !.responses = Append(@, response)],
                                   domain,
                                   check_single_domain(domain,
                                                       argument.use_enhanced_format,
                                                       response, keywordOrder))
    /\ UNCHANGED <<pc, keywordOrder, call, detailed, enhanced, domain_statuses,
                   problematic, argument>>

\* lines 106-109: the check of the next domain raises
CheckNextDomainRaises ==
    /\ pc = "loop"
    /\ Len(returned.outcomes) < Len(argument.domains)
    /\ returned' = LoopBody([returned EXCEPT !.responses =
                                 Append(@, FailedResponse("none"))],
                            argument.domains[Len(returned.outcomes) + 1], CheckRaised)
    /\ UNCHANGED <<pc, keywordOrder, call, detailed, enhanced, domain_statuses,
                   problematic, argument>>

\* lines 112-117: the loop is over and the DomainCheckResult is returned
ReturnBatchResult ==
    /\ pc = "loop"
    /\ Len(returned.outcomes) = Len(argument.domains)
    /\ returned' = [returned EXCEPT !.total_domains = Len(argument.domains)]
    /\ pc' = "batch_done"
    /\ UNCHANGED <<keywordOrder, call, detailed, enhanced, domain_statuses, problematic,
                   argument>>

NextBatch ==
    CheckMultipleDomains \/ CheckNextDomain \/ CheckNextDomainRaises \/ ReturnBatchResult

SpecBatch == InitBatch /\ [][NextBatch]_vars

-----------------------------------------------------------------------------
(* Properties of the batch (specification SpecBatch) *)

BatchDone == pc = "batch_done"

\* the input entries (positions of the list) by what their check produced
RaisedEntries == {i \in 1..Len(returned.outcomes) : returned.outcomes[i].raised}
ErrorEntries ==
    {i \in 1..Len(returned.outcomes) :
        returned.outcomes[i].raised \/ returned.outcomes[i].has_error}
AvailableEntries ==
    {i \in 1..Len(returned.outcomes) :
        /\ ~returned.outcomes[i].raised
        /\ returned.outcomes[i].is_available
        /\ ~returned.outcomes[i].has_error}

\* the domains of the entries in E, in input order
DomainsOf(E) ==
    LET nth == [k \in 1..Cardinality(E) |->
                   CHOOSE i \in E : Cardinality({j \in E : j < i}) = k - 1]
    IN  [k \in 1..Cardinality(E) |-> argument.domains[nth[k]]]

NamesOf(infos) == [k \in 1..Len(infos) |-> infos[k].domain_name]
ErrorDomains == [k \in 1..Len(returned.errors) |-> returned.errors[k].domain]

BatchAccounting ==
    /\ returned.total_domains = Len(argument.domains)
    /\ Len(returned.outcomes) = Len(argument.domains)
    /\ NamesOf(returned.domain_infos)
           = DomainsOf((1..Len(argument.domains)) \ RaisedEntries)
    /\ returned.available_domains = DomainsOf(AvailableEntries)
    /\ \A k \in 1..Len(returned.available_domains) :
          \E m \in 1..Len(returned.domain_infos) :
             /\ returned.domain_infos[m].domain_name = returned.available_domains[k]
             /\ returned.domain_infos[m].is_available
             /\ ~returned.domain_infos[m].has_error
    /\ ErrorDomains = DomainsOf(ErrorEntries)
    /\ AvailableEntries \cap ErrorEntries = {}

NoDomainInBothLists ==
    \A k \in 1..Len(returned.available_domains), m \in 1..Len(returned.errors) :
       returned.available_domains[k] # returned.errors[m].domain

\* C23 as stated: the domains are processed in input order and each is accounted
\* for once; total_domains is the number of input domains; domain_infos and
\* available_domains follow input order; a domain is in available_domains only if
\* its DomainInfo has is_available and not has_error; no domain is both in
\* available_domains and in errors; an exception for one domain is recorded in
\* errors and the remaining domains are still checked.
C23_EachDomainOnce ==
    BatchDone => (BatchAccounting /\ NoDomainInBothLists)

NoRepeatedDomain ==
    \A i \in 1..Len(argument.domains), j \in 1..Len(argument.domains) :
       argument.domains[i] = argument.domains[j] => i = j

\* C23 amended: the accounting is per entry of the input list.  No entry is recorded
\* both as available and as an error; the name of a domain listed twice can be in
\* both lists when its two checks end differently.
C23_EachEntryOnce ==
    BatchDone => (BatchAccounting /\ (NoRepeatedDomain => NoDomainInBothLists))

\* the first domain's check raises and the second domain is still checked and found
\* available
C23_Witness ==
    /\ BatchDone
    /\ argument.domains = <<Chars("example.com"), Chars("test.org")>>
    /\ returned.outcomes[1].raised
    /\ returned.available_domains = <<Chars("test.org")>>
    /\ Len(returned.errors) = 1

-----------------------------------------------------------------------------
(* cli.py: the check-domains command (specification SpecCli) *)

\* what one run of the command did: the exit code, how many messages were handed
\* to send_slack_alert (each is one webhook POST) and how many Slack accepted
CliResult(exit_code, alerts, delivered) ==
    [exit_code |-> exit_code, alerts |-> alerts, delivered |-> delivered]

\* lines 307-311 and 286-288: the enhanced notification of a run
CliNotification(domain_infos, notify_all, format_outcome, post_outcome) ==
    LET sent == send_slack_notification(domain_infos, notify_all, format_outcome,
                                        post_outcome)
    IN  CliResult(0, IF sent.alerted THEN 1 ELSE 0, IF sent.delivered THEN 1 ELSE 0)

\* lines 282-295: no domain was loaded
HeartbeatForEmptyList(run) ==
    IF run.heartbeat
    THEN CliNotification(<<>>, TRUE, run.format_outcome, run.post_outcome)
    ELSE CliResult(0, 0, 0)

\* lines 343-359: one alert per domain that is available, or per domain when
\* should_notify_all
LegacyAlerts(run) ==
    LET should_notify_all == run.notify_all \/ run.heartbeat
        alerted == {i \in 1..Len(run.domain_infos) :
                       run.domain_infos[i].is_available \/ should_notify_all}
    IN  CliResult(0, Cardinality(alerted),
                  IF run.post_outcome = "ok" THEN Cardinality(alerted) ELSE 0)

\* lines 199-369.  run holds the options, whether the settings load, whether the
\* domains file exists, and the DomainCheckResult of check_multiple_domains.
check_domains(run) ==
    IF run.scheduled /\ run.manual THEN CliResult(1, 0, 0)
    ELSE IF ~run.env_ok THEN CliResult(1, 0, 0)
    ELSE IF ~run.file_exists THEN CliResult(1, 0, 0)
    ELSE IF ~run.legacy_slack
    THEN IF run.total_domains = 0 THEN HeartbeatForEmptyList(run)
         ELSE CliNotification(run.domain_infos, run.notify_all \/ run.heartbeat,
                              run.format_outcome, run.post_outcome)
    ELSE IF run.total_domains = 0 THEN CliResult(0, 0, 0)
         ELSE LegacyAlerts(run)

\* the results check_multiple_domains hands back: the legacy format never sets
\* has_error, the enhanced format never reports an error as available
CliInfos(legacy_slack) ==
    { info \in SampleInfos :
         IF legacy_slack THEN ~info.has_error
         ELSE ~(info.has_error /\ info.is_available) }

CliRuns ==
    { [notify_all |-> na, heartbeat |-> hb, legacy_slack |-> ls, scheduled |-> sc,
       manual |-> mn, env_ok |-> env, file_exists |-> fe, total_domains |-> Len(di) + r,
       domain_infos |-> di, format_outcome |-> fo, post_outcome |-> po] :
          na \in BOOLEAN, hb \in BOOLEAN, ls \in BOOLEAN,
          sc \in BOOLEAN, mn \in BOOLEAN, env \in BOOLEAN, fe \in BOOLEAN,
          r \in {0, 1}, di \in SeqsUpTo(SampleInfos, MaxInfos),
          fo \in FormatOutcomes, po \in PostOutcomes }

InitCli ==
    /\ pc = "start"
    /\ keywordOrder = KeywordsAsWritten
    /\ call = NoCall
    /\ detailed = NoResult
    /\ enhanced = NoResult
    /\ domain_statuses = <<>>
    /\ problematic = <<>>
    /\ argument = <<>>
    /\ returned = <<>>

\* the command is run once
CheckDomains ==
    /\ pc = "start"
    /\ \E run \in CliRuns :
          /\ \A i \in 1..Len(run.domain_infos) :
                run.domain_infos[i] \in CliInfos(run.legacy_slack)
          \* when the settings do not load, nothing else is read
          /\ run.env_ok \/ (run.file_exists /\ run.domain_infos = <<>>)
          /\ argument' = run
          /\ returned' = check_domains(run)
    /\ pc' = "cli_done"
    /\ UNCHANGED <<keywordOrder, call, detailed, enhanced, domain_statuses, problematic>>

NextCli == CheckDomains

SpecCli == InitCli /\ [][NextCli]_vars

-----------------------------------------------------------------------------
(* Properties of the check-domains command (specification SpecCli) *)

CliDone == pc = "cli_done"

\* the run got as far as the check: options consistent, settings and domains loaded
CliChecked ==
    /\ CliDone
    /\ ~(argument.scheduled /\ argument.manual)
    /\ argument.env_ok
    /\ argument.file_exists

NothingToReport ==
    \A i \in 1..Len(argument.domain_infos) :
       /\ ~argument.domain_infos[i].is_available
       /\ ~argument.domain_infos[i].has_error

\* C24: with --heartbeat a notification is sent even when there is nothing to
\* report: for an empty domain list a heartbeat message is posted, and when domains
\* are loaded but none is available or in error a notification is still posted.
C24_HeartbeatAlwaysPosts ==
    (/\ CliChecked
     /\ argument.heartbeat
     /\ ~argument.legacy_slack
     /\ argument.format_outcome = "ok"
     /\ argument.total_domains = Len(argument.domain_infos)
     /\ NothingToReport)
        => returned.alerts >= 1

\* the lookup failed: the request or the decoding of its body failed, or the
\* service reported a data error
LookupFailed(response) ==
    \/ response.http # "ok"
    \/ response.json # "object"
    \/ response.WhoisRecord.shape \in {"null", "not_object"}
    \/ IsDataError(response.WhoisRecord.dataError)
    \/ response.WhoisRecord.registryData.shape \in {"null", "not_object"}
    \/ IsDataError(response.WhoisRecord.registryData.dataError)

\* the entries whose lookup was made and failed
FailedLookupEntries ==
    {i \in 1..Len(returned.outcomes) :
        /\ ~returned.outcomes[i].raised
        /\ returned.outcomes[i].requested
        /\ LookupFailed(returned.responses[i])}

\* C25: every lookup that fails gives a DomainInfo with has_error set, which is
\* counted in errors, in the enhanced and in the legacy format.
C25_FailedLookupHasError ==
    BatchDone =>
        \A i \in FailedLookupEntries :
           /\ returned.outcomes[i].has_error
           /\ \E m \in 1..Len(returned.errors) :
                 returned.errors[m].domain = argument.domains[i]

-----------------------------------------------------------------------------
(* Properties of the splitting: links (specification SpecParse) *)

\* C26: no token returned by _parse_status_string is a URL (none starts with
\* http), also when the URL is written in parentheses after its status code.
C26_NoUrlReturned ==
    Parsed => \A i \in 1..Len(returned) : ~StartsWith(returned[i], Chars("http"))

-----------------------------------------------------------------------------
(* One status field given as a list and as a string (specification SpecShape) *)

\* how many tokens the status field holds
MaxShapeTokens == 2

\* status tokens without whitespace
ShapeTokens ==
    { Chars("ok"), Chars("clientHold"), Chars("pending-delete"),
      Chars("someWeirdLockedStatus"), Chars("(pendingDelete)"), Chars("(ok)"),
      Chars("https://www.icann.org/epp#clientHold"), Chars("inactive(hold)"), <<>> }

\* the lookup of example.com answered with a record whose status is the given field
DetailedWithStatus(availability, field, order) ==
    check_domain_status_detailed(
        Chars("example.com"), "given", TRUE,
        JsonResponse(RecordWith("absent", availability, field)), order)

InitShape ==
    /\ pc = "start"
    /\ keywordOrder \in {KeywordsAsWritten, Reverse(KeywordsAsWritten)}
    /\ call = NoCall
    /\ detailed = NoResult
    /\ enhanced = NoResult
    /\ domain_statuses = <<>>
    /\ problematic = <<>>
    /\ argument = <<>>
    /\ returned = <<>>

\* the same tokens reach check_domain_status_detailed once as a list and once as
\* one whitespace-joined string
CheckBothShapes ==
    /\ pc = "start"
    /\ \E tokens \in SeqsUpTo(ShapeTokens, MaxShapeTokens),
          sep \in {<<" ">>, <<"\n">>},
          availability \in {Availability(Chars("AVAILABLE")),
                            Availability(Chars("UNAVAILABLE"))} :
          /\ argument' = [tokens |-> tokens, str |-> JoinParts(tokens, sep),
                          availability |-> availability]
          /\ returned' =
                [as_list |-> DetailedWithStatus(availability, ListStatus(tokens),
                                                keywordOrder),
                 as_string |-> DetailedWithStatus(availability,
                                                  StrStatus(JoinParts(tokens, sep)),
                                                  keywordOrder)]
    /\ pc' = "shaped"
    /\ UNCHANGED <<keywordOrder, call, detailed, enhanced, domain_statuses, problematic>>

NextShape == CheckBothShapes

SpecShape == InitShape /\ [][NextShape]_vars

-----------------------------------------------------------------------------
(* Properties of the two shapes (specification SpecShape) *)

Shaped == pc = "shaped"

SameVerdict ==
    /\ returned.as_list.is_available = returned.as_string.is_available
    /\ returned.as_list.problematic_statuses = returned.as_string.problematic_statuses

PlainToken(token) ==
    /\ ~StartsWith(token, Chars("http"))
    /\ token # <<>> => (~IsParenthesis(token[1]) /\ ~IsParenthesis(token[Len(token)]))

-----------------------------------------------------------------------------
(* Properties of the lookups: availability and problematic statuses *)

\* a lookup function returned a result
Returned(result) == result.called /\ ~result.raised

\* C28: in every result of check_domain_status_detailed and of
\* get_enhanced_domain_info, on every return path, is_available implies that
\* problematic_statuses is empty.
C28_AvailableHasNoProblematicStatus ==
    /\ (Returned(detailed) /\ detailed.is_available)
          => detailed.problematic_statuses = <<>>
    /\ (Returned(enhanced) /\ enhanced.is_available)
          => enhanced.problematic_statuses = <<>>

\* the flag reads AVAILABLE and a status is problematic: both functions return the
\* status and is_available = False
C28_Witness ==
    /\ pc = "enhanced"
    /\ FlagIsLiteralAvailable
    /\ enhanced.problematic_statuses = <<Chars("pendingDelete")>>
    /\ ~enhanced.is_available
    /\ detailed.problematic_statuses = <<Chars("pendingDelete")>>
    /\ ~detailed.is_available

\* C29: for the same domain and the same lookup response (or failure),
\* check_domain_status_detailed and get_enhanced_domain_info return the same
\* is_available and the same problematic_statuses.
C29_LegacyAndEnhancedAgree ==
    (pc = "enhanced" /\ Returned(detailed) /\ Returned(enhanced))
        => Verdict(detailed) = Verdict(enhanced)

-----------------------------------------------------------------------------
(* Properties of the classifier: longer token lists (specification SpecExtract) *)

IsPrefix(a, b) == Len(a) <= Len(b) /\ SubSeq(b, 1, Len(a)) = a

\* C30: for token lists S and T, _extract_problematic_statuses(S) is a prefix of
\* _extract_problematic_statuses(S followed by T): adding tokens never removes a
\* problematic entry and never empties a non-empty result.
C30_MonotoneInTokens ==
    pc = "extracted" =>
        \A k \in 0..Len(domain_statuses) :
           LET of_S == extract_problematic_statuses(SubSeq(domain_statuses, 1, k),
                                                    keywordOrder)
           IN  /\ IsPrefix(of_S, problematic)
               /\ of_S # <<>> => problematic # <<>>

\* S is one problematic token; T repeats it in another spelling and adds a new one
C30_Witness ==
    /\ pc = "extracted"
    /\ domain_statuses = <<Chars("pendingDelete"), Chars("pending-delete"),
                           Chars("serverHold")>>
    /\ problematic = <<Chars("pendingDelete"), Chars("serverHold")>>

====
